---- MODULE Spec2Model ----
(***************************************************************************)
(* Model of find-files-mcp (src/server.js): the wildcard matcher, the      *)
(* breadth-first traversal of findFiles with its filter chain, and the     *)
(* advanced_find_files handler that wraps it.                              *)
(*                                                                         *)
(* Strings are sequences of one-character strings, so that includes,       *)
(* startsWith, endsWith, toLowerCase and the regular expression are        *)
(* computed and not assumed.                                               *)
(***************************************************************************)
EXTENDS Integers, Sequences, FiniteSets, TLC

(***************************************************************************)
(* Bounds of the model.                                                    *)
(***************************************************************************)
MaxPatLen == 3
MaxNameLen == 2
MaxElapsed == 2
MaxResultsCap == 2
MaxActive == 2

(***************************************************************************)
(* JavaScript string primitives.                                           *)
(***************************************************************************)
toLowerCaseChar(c) == IF c = "A" THEN "a"
                      ELSE IF c = "T" THEN "t"
                      ELSE IF c = "X" THEN "x"
                      ELSE c

toLowerCase(s) == [i \in 1..Len(s) |-> toLowerCaseChar(s[i])]

includes(s, sub) ==
    \E i \in 0..(Len(s) - Len(sub)) : SubSeq(s, i + 1, i + Len(sub)) = sub

startsWith(s, pre) ==
    Len(pre) <= Len(s) /\ SubSeq(s, 1, Len(pre)) = pre

endsWith(s, suf) ==
    Len(suf) <= Len(s) /\ SubSeq(s, Len(s) - Len(suf) + 1, Len(s)) = suf

\* JavaScript truthiness of a string: the empty string is falsy.
TruthyStr(s) == s /= <<>>

(***************************************************************************)
(* wildcardToRegex: three global replaces build the source text of the     *)
(* expression, then new RegExp parses it.  BS is the backslash.            *)
(***************************************************************************)
BS == "\\"

RECURSIVE replaceAll(_, _, _)
replaceAll(s, c, by) ==
    IF s = <<>> THEN <<>>
    ELSE (IF Head(s) = c THEN by ELSE <<Head(s)>>) \o replaceAll(Tail(s), c, by)

regexPattern(pattern) ==
    replaceAll(replaceAll(replaceAll(pattern, ".", <<BS, ".">>), "*", <<".", "*">>),
               "?", <<".">>)

RegexSource(pattern) == <<"^">> \o regexPattern(pattern) \o <<"$">>

\* A parsed expression is a sequence of terms [atom, q]: atom is <<"any">> for
\* an unescaped dot or <<"lit", c>> for a character; q is "one", "star" or "plus".
\* ParseTerms reads the text between ^ and $; a quantifier with nothing to
\* repeat (at the start, or after another quantifier) is a SyntaxError.
RECURSIVE ParseTerms(_, _)
ParseTerms(src, acc) ==
    IF src = <<>> THEN [ok |-> TRUE, terms |-> acc]
    ELSE LET c == Head(src) IN
         IF c = BS
           THEN IF Len(src) < 2 THEN [ok |-> FALSE, terms |-> <<>>]
                ELSE ParseTerms(SubSeq(src, 3, Len(src)),
                                Append(acc, [atom |-> <<"lit", src[2]>>, q |-> "one"]))
         ELSE IF c \in {"*", "+"}
           THEN IF acc = <<>> \/ acc[Len(acc)].q /= "one"
                  THEN [ok |-> FALSE, terms |-> <<>>]
                  ELSE ParseTerms(Tail(src),
                         [acc EXCEPT ![Len(acc)].q = IF c = "*" THEN "star" ELSE "plus"])
         ELSE IF c = "."
           THEN ParseTerms(Tail(src), Append(acc, [atom |-> <<"any">>, q |-> "one"]))
         ELSE ParseTerms(Tail(src), Append(acc, [atom |-> <<"lit", c>>, q |-> "one"]))

NewRegExp(source) ==
    LET body == SubSeq(source, 2, Len(source) - 1)
        p == ParseTerms(body, <<>>)
    IN IF p.ok THEN [kind |-> "regex", terms |-> p.terms]
       ELSE [kind |-> "SyntaxError", terms |-> <<>>]

\* line 33: the source text is built once, then handed to new RegExp.
wildcardToRegex(pattern) ==
    CHOOSE re \in { NewRegExp(source) : source \in { RegexSource(pattern) } } : TRUE

NullRegex == [kind |-> "null", terms |-> <<>>]

AtomAccepts(atom, c) == atom[1] = "any" \/ atom[2] = c

\* RegExp.prototype.test for an expression anchored at both ends.
RECURSIVE TermsMatch(_, _)
TermsMatch(terms, s) ==
    IF terms = <<>> THEN s = <<>>
    ELSE LET t == Head(terms)
             lo == IF t.q = "star" THEN 0 ELSE 1
             hi == IF t.q = "one" THEN 1 ELSE Len(s)
         IN \E k \in lo..hi :
               /\ k <= Len(s)
               /\ \A i \in 1..k : AtomAccepts(t.atom, s[i])
               /\ TermsMatch(Tail(terms), SubSeq(s, k + 1, Len(s)))

RegexTest(re, s) == TermsMatch(re.terms, s)

(***************************************************************************)
(* The name filter of findFiles (lines 92-96).  filenameRegex was compiled *)
(* from the pattern as given; the name and the pattern text are folded.    *)
(***************************************************************************)
testNameOf(fileName, caseSensitive) ==
    IF caseSensitive THEN fileName ELSE toLowerCase(fileName)

testPatternOf(filename, caseSensitive) ==
    IF caseSensitive THEN filename ELSE toLowerCase(filename)

NameFilterAnd(filenameRegex, filename, fileName, caseSensitive) ==
    /\ RegexTest(filenameRegex, testNameOf(fileName, caseSensitive))
    /\ includes(testNameOf(fileName, caseSensitive), testPatternOf(filename, caseSensitive))

NameFilter(filenameRegex, filename, fileName, caseSensitive) ==
    \/ RegexTest(filenameRegex, testNameOf(fileName, caseSensitive))
    \/ includes(testNameOf(fileName, caseSensitive), testPatternOf(filename, caseSensitive))

(***************************************************************************)
(* The file system the traversal runs on: what the Metadata Provider       *)
(* (fs.promises.readdir / stat / readFile) answers for each path.  A path  *)
(* is the sequence of its segments; path.join appends a segment.           *)
(***************************************************************************)
pathJoin(dir, name) == Append(dir, name)

nA    == <<"A">>
nB    == <<"B">>
nS    == <<"s">>
nK    == <<"k">>
nGone == <<"g">>
nPipe == <<"p">>
nATxt == <<"a", ".", "t", "x", "t">>
nBPng == <<"b", ".", "p", "n", "g">>
nCTxt == <<"c", ".", "t", "x", "t">>
nDTxt == <<"d", ".", "t", "x", "t">>
nETxt == <<"e", ".", "t", "x", "t">>
nUTxt == <<"A", ".", "T", "X", "T">>

dirA == <<nA>>
dirB == <<nB>>

\* One directory entry with what stat and readFile answer for it.
\* kind "other" is an entry that is neither a regular file nor a directory.
File(name, size, birthtime, mtime, content, readOk) ==
    [name |-> name, statOk |-> TRUE, kind |-> "file", size |-> size,
     birthtime |-> birthtime, mtime |-> mtime, content |-> content, readOk |-> readOk]

Dir(name) ==
    [name |-> name, statOk |-> TRUE, kind |-> "dir", size |-> 0,
     birthtime |-> 0, mtime |-> 0, content |-> <<>>, readOk |-> FALSE]

Other(name) ==
    [name |-> name, statOk |-> TRUE, kind |-> "other", size |-> 0,
     birthtime |-> 0, mtime |-> 0, content |-> <<>>, readOk |-> FALSE]

Vanished(name) ==
    [name |-> name, statOk |-> FALSE, kind |-> "other", size |-> 0,
     birthtime |-> 0, mtime |-> 0, content |-> <<>>, readOk |-> FALSE]

\* readdir: ok = FALSE is a listing that fails (permission denied, not a
\* directory, vanished).  <<A, s>> and <<B, s>> are ordinary subdirectories,
\* <<B, k>> is a directory that cannot be listed.
readdir(path) ==
    IF path = dirA THEN
        [ok |-> TRUE,
         entries |-> << File(nATxt, 1, 1, 1, <<"x">>, TRUE),
                        Dir(nS),
                        File(nBPng, 2, 2, 0, <<"x", "z">>, TRUE) >>]
    ELSE IF path = <<nA, nS>> THEN
        [ok |-> TRUE,
         entries |-> << File(nETxt, 1, 1, 1, <<"x">>, FALSE),
                        File(nCTxt, 0, 0, 2, <<>>, TRUE) >>]
    ELSE IF path = dirB THEN
        [ok |-> TRUE,
         entries |-> << Dir(nK),
                        File(nDTxt, 2, 2, 2, <<"y", "x">>, TRUE),
                        Vanished(nGone),
                        Dir(nS) >>]
    ELSE IF path = <<nB, nS>> THEN
        [ok |-> TRUE,
         entries |-> << File(nUTxt, 1, 0, 1, <<"x">>, TRUE),
                        Other(nPipe) >>]
    ELSE [ok |-> FALSE, entries |-> <<>>]

(***************************************************************************)
(* The Content Classifier: mime.lookup(filePath) || 'application/octet-    *)
(* stream'.  The label comes from the lower-cased extension of the last    *)
(* segment.                                                                *)
(***************************************************************************)
mimeTextPlain   == <<"t","e","x","t","/","p","l","a","i","n">>
mimeImagePng    == <<"i","m","a","g","e","/","p","n","g">>
mimeOctetStream == <<"a","p","p","l","i","c","a","t","i","o","n","/",
                     "o","c","t","e","t","-","s","t","r","e","a","m">>

extname(name) ==
    LET dots == {i \in 2..Len(name) : name[i] = "."}
    IN IF dots = {} THEN <<>>
       ELSE LET d == CHOOSE i \in dots : \A j \in dots : j <= i
            IN SubSeq(name, d + 1, Len(name))

mimeLookup(filePath) ==
    LET ext == toLowerCase(extname(filePath[Len(filePath)]))
    IN IF ext = <<"t","x","t">> THEN mimeTextPlain
       ELSE IF ext = <<"p","n","g">> THEN mimeImagePng
       ELSE mimeOctetStream

(***************************************************************************)
(* The search configuration.  An optional argument is [set, v]; the code   *)
(* tests numbers and strings by truthiness, so a supplied 0 or "" counts   *)
(* as absent, while a Date object is always truthy.                        *)
(***************************************************************************)
Unset == [set |-> FALSE, v |-> 0]
Some(v) == [set |-> TRUE, v |-> v]

TruthyNum(o) == o.set /\ o.v /= 0
TruthyDate(o) == o.set

pText  == <<"t","e","x","t">>
pImage == <<"i","m","a","g","e">>
pTxt   == <<"t","x","t">>

NameOptions ==
    { [filename |-> <<>>, caseSensitive |-> FALSE],
      [filename |-> <<"*", ".", "t", "x", "t">>, caseSensitive |-> TRUE],
      [filename |-> <<"A">>, caseSensitive |-> FALSE],
      [filename |-> <<"+">>, caseSensitive |-> FALSE] }

SizeOptions ==
    { [minSize |-> mn, maxSize |-> mx] :
        mn \in {Unset, Some(1)}, mx \in {Unset, Some(0), Some(1)} }

DateOptions ==
    { <<Unset, Unset>>, <<Some(1), Unset>>, <<Unset, Some(1)>> }

FilterSettings ==
    [ name : NameOptions,
      extension : {<<>>, pTxt},
      size : SizeOptions,
      created : DateOptions,
      modified : DateOptions,
      fileType : {<<>>, pText, pImage},
      contentSearch : {<<>>, <<"x">>} ]

\* How many of the seven filter groups a setting switches on.
Active(f) ==
      (IF f.name.filename /= <<>> THEN 1 ELSE 0)
    + (IF f.extension /= <<>> THEN 1 ELSE 0)
    + (IF f.size.minSize.set \/ f.size.maxSize.set THEN 1 ELSE 0)
    + (IF f.created /= <<Unset, Unset>> THEN 1 ELSE 0)
    + (IF f.modified /= <<Unset, Unset>> THEN 1 ELSE 0)
    + (IF f.fileType /= <<>> THEN 1 ELSE 0)
    + (IF f.contentSearch /= <<>> THEN 1 ELSE 0)

StartDirOptions == { <<>>, <<dirA>>, <<dirA, dirB>>, <<dirB, dirA>>, <<dirA, dirA>> }

Configs ==
    { [ startDirs |-> sd,
        filename |-> f.name.filename,
        caseSensitive |-> f.name.caseSensitive,
        extension |-> f.extension,
        minSize |-> f.size.minSize,
        maxSize |-> f.size.maxSize,
        createdAfter |-> f.created[1],
        createdBefore |-> f.created[2],
        modifiedAfter |-> f.modified[1],
        modifiedBefore |-> f.modified[2],
        recursive |-> rec,
        contentSearch |-> f.contentSearch,
        fileType |-> f.fileType,
        maxResults |-> mr,
        timeoutMs |-> tm ] :
      sd \in StartDirOptions,
      f \in {g \in FilterSettings : Active(g) <= MaxActive},
      rec \in BOOLEAN,
      mr \in 1..MaxResultsCap,
      tm \in 1..(MaxElapsed - 1) }

(***************************************************************************)
(* State.  cfg .. response are the handler's and findFiles' own state;     *)
(* qdepth .. last record history for the properties (depth of each queued  *)
(* directory and of each match's directory, the enqueue and dequeue        *)
(* orders, the number of timeout checks, the last entry processed).        *)
(* mPc .. mPass are the state of one isolated name-filter evaluation.      *)
(***************************************************************************)
VARIABLES cfg, pc, filenameRegex, queue, results, currentDir, files, idx,
          elapsed, error, returned, response,
          qdepth, curDepth, rdepth, enqLog, deqLog, nChecks, last,
          mPc, mFilename, mFileName, mCase, mRegex, mRegexOk, mPass

tvars == <<cfg, pc, filenameRegex, queue, results, currentDir, files, idx,
           elapsed, error, returned, response,
           qdepth, curDepth, rdepth, enqLog, deqLog, nChecks, last>>
mvars == <<mPc, mFilename, mFileName, mCase, mRegex, mRegexOk, mPass>>
vars == <<tvars, mvars>>

NoError == ""
SearchTimedOut == "Search timed out"
InvalidRegExp == "Invalid regular expression"

NoResponse == [kind |-> "none", count |-> 0, message |-> ""]
NoLast == [path |-> <<>>, kind |-> "none", stage |-> "none", read |-> "none"]

(***************************************************************************)
(* The filter chain of findFiles (lines 87-124), in the order of the code. *)
(***************************************************************************)
nameRejects(c, re, fileName) ==
    re.kind /= "null" /\ ~NameFilter(re, c.filename, fileName, c.caseSensitive)

extensionRejects(c, fileName) ==
    TruthyStr(c.extension) /\ ~endsWith(fileName, <<".">> \o c.extension)

sizeRejects(c, st) ==
    \/ TruthyNum(c.minSize) /\ st.size < c.minSize.v
    \/ TruthyNum(c.maxSize) /\ st.size > c.maxSize.v

createdRejects(c, st) ==
    \/ TruthyDate(c.createdAfter) /\ st.birthtime < c.createdAfter.v
    \/ TruthyDate(c.createdBefore) /\ st.birthtime > c.createdBefore.v

modifiedRejects(c, st) ==
    \/ TruthyDate(c.modifiedAfter) /\ st.mtime < c.modifiedAfter.v
    \/ TruthyDate(c.modifiedBefore) /\ st.mtime > c.modifiedBefore.v

fileTypeRejects(c, mimeType) ==
    TruthyStr(c.fileType) /\ ~startsWith(mimeType, c.fileType)

\* Whether the content is read at all (line 116).
contentIsRead(c, mimeType) ==
    TruthyStr(c.contentSearch) /\ startsWith(mimeType, <<"t","e","x","t","/">>)

contentMatchFailOpen(c, st, mimeType) ==
    IF contentIsRead(c, mimeType)
      THEN IF st.readOk THEN includes(st.content, c.contentSearch) ELSE TRUE
      ELSE TRUE

\* contentMatch of lines 115-123.
contentMatch(c, st, mimeType) ==
    IF contentIsRead(c, mimeType)
      THEN IF st.readOk THEN includes(st.content, c.contentSearch) ELSE FALSE
      ELSE TRUE

contentRejects(c, st, mimeType) ==
    TruthyStr(c.contentSearch) /\ ~contentMatch(c, st, mimeType)

FilterStageContentFirst(c, re, st, mimeType) ==
    IF contentRejects(c, st, mimeType) THEN "content"
    ELSE IF nameRejects(c, re, st.name) THEN "name"
    ELSE IF extensionRejects(c, st.name) THEN "extension"
    ELSE IF sizeRejects(c, st) THEN "size"
    ELSE IF createdRejects(c, st) THEN "created"
    ELSE IF modifiedRejects(c, st) THEN "modified"
    ELSE IF fileTypeRejects(c, mimeType) THEN "fileType"
    ELSE "match"

\* The first filter that excludes the file, or "match".
FilterStage(c, re, st, mimeType) ==
    IF nameRejects(c, re, st.name) THEN "name"
    ELSE IF extensionRejects(c, st.name) THEN "extension"
    ELSE IF sizeRejects(c, st) THEN "size"
    ELSE IF createdRejects(c, st) THEN "created"
    ELSE IF modifiedRejects(c, st) THEN "modified"
    ELSE IF fileTypeRejects(c, mimeType) THEN "fileType"
    ELSE IF contentRejects(c, st, mimeType) THEN "content"
    ELSE "match"

\* Date.prototype.toISOString of an instant.
toISOString(t) == <<"ISO", t>>

MatchRecord(filePath, st, mimeType) ==
    [path |-> filePath, size |-> st.size, created |-> toISOString(st.birthtime),
     modified |-> toISOString(st.mtime), type |-> mimeType]

(***************************************************************************)
(* Loop conditions and the queue.                                          *)
(***************************************************************************)
LoopConditionInTime(q, res, c) ==
    Len(q) > 0 /\ Len(res) < c.maxResults /\ elapsed <= c.timeoutMs

LoopConditionNoCap(q, res, c) == Len(q) > 0

LoopCondition(q, res, c) == Len(q) > 0 /\ Len(res) < c.maxResults

TimedOutLate(el, timeoutMs) == el > timeoutMs + 1

TimedOut(el, timeoutMs) == el > timeoutMs

QueuePop(q) == [item |-> q[Len(q)], rest |-> SubSeq(q, 1, Len(q) - 1), at |-> Len(q)]

QueueShiftKeep(q) == [item |-> Head(q), rest |-> q, at |-> 1]

\* queue.shift(): the head and what stays; at is the position taken.
QueueShift(q) == [item |-> Head(q), rest |-> Tail(q), at |-> 1]

\* line 83: which entries are pushed on the queue.
isEnqueuedAlways(st, c) == st.kind = "dir"

isEnqueuedAnyKind(st, c) == c.recursive

isEnqueued(st, c) == st.kind = "dir" /\ c.recursive

RemoveAt(s, i) == SubSeq(s, 1, i - 1) \o SubSeq(s, i + 1, Len(s))

(***************************************************************************)
(* Initial states.  Init: the handler is about to be called with one of    *)
(* the configurations.  The isolated name-filter evaluation is idle.       *)
(***************************************************************************)
TraversalStart(c) ==
    /\ cfg = c
    /\ filenameRegex = NullRegex
    /\ queue = <<>>
    /\ results = <<>>
    /\ currentDir = <<>>
    /\ files = <<>>
    /\ idx = 0
    /\ elapsed = 0
    /\ error = NoError
    /\ returned = <<>>
    /\ response = NoResponse
    /\ qdepth = <<>>
    /\ curDepth = 0
    /\ rdepth = <<>>
    /\ enqLog = <<>>
    /\ deqLog = <<>>
    /\ nChecks = 0
    /\ last = NoLast

MatcherIdle ==
    /\ mPc = "off"
    /\ mFilename = <<>>
    /\ mFileName = <<>>
    /\ mCase = FALSE
    /\ mRegex = NullRegex
    /\ mRegexOk = FALSE
    /\ mPass = FALSE

Init ==
    /\ \E c \in Configs : TraversalStart(c)
    /\ pc = "idle"
    /\ MatcherIdle

(***************************************************************************)
(* The handler up to the call (lines 178-204) and the prologue of          *)
(* findFiles (lines 54-57).                                                *)
(***************************************************************************)
\* lines 184-186: no directory to search.
NoDirectories ==
    /\ pc = "idle"
    /\ Len(cfg.startDirs) = 0
    /\ response' = [kind |-> "noDirectories", count |-> 0,
                    message |-> "Please specify at least one directory to search."]
    /\ pc' = "done"
    /\ UNCHANGED <<cfg, filenameRegex, queue, results, currentDir, files, idx,
                   elapsed, error, returned,
                   qdepth, curDepth, rdepth, enqLog, deqLog, nChecks, last>>
    /\ UNCHANGED mvars

compiledRegex(c) ==
    IF TruthyStr(c.filename) THEN wildcardToRegex(c.filename) ELSE NullRegex

\* lines 54-56: the queue is seeded, then new RegExp rejects the source text.
CallThrows ==
    /\ pc = "idle"
    /\ Len(cfg.startDirs) > 0
    /\ compiledRegex(cfg).kind = "SyntaxError"
    /\ queue' = cfg.startDirs
    /\ qdepth' = [i \in 1..Len(cfg.startDirs) |-> 0]
    /\ enqLog' = cfg.startDirs
    /\ error' = InvalidRegExp
    /\ pc' = "thrown"
    /\ UNCHANGED <<cfg, filenameRegex, results, currentDir, files, idx,
                   elapsed, returned, response,
                   curDepth, rdepth, deqLog, nChecks, last>>
    /\ UNCHANGED mvars

\* lines 54-57: results, queue, filenameRegex, startTime.
Call ==
    /\ pc = "idle"
    /\ Len(cfg.startDirs) > 0
    /\ compiledRegex(cfg).kind /= "SyntaxError"
    /\ filenameRegex' = compiledRegex(cfg)
    /\ results' = <<>>
    /\ queue' = cfg.startDirs
    /\ qdepth' = [i \in 1..Len(cfg.startDirs) |-> 0]
    /\ enqLog' = cfg.startDirs
    /\ elapsed' = 0
    /\ pc' = "loop"
    /\ UNCHANGED <<cfg, currentDir, files, idx, error, returned, response,
                   curDepth, rdepth, deqLog, nChecks, last>>
    /\ UNCHANGED mvars

(***************************************************************************)
(* The while loop (lines 59-71).                                           *)
(***************************************************************************)
\* line 59 false, line 137: return results.
LoopExit ==
    /\ pc = "loop"
    /\ ~LoopCondition(queue, results, cfg)
    /\ returned' = results
    /\ pc' = "returned"
    /\ UNCHANGED <<cfg, filenameRegex, queue, results, currentDir, files, idx,
                   elapsed, error, response,
                   qdepth, curDepth, rdepth, enqLog, deqLog, nChecks, last>>
    /\ UNCHANGED mvars

\* lines 60-62: the timeout check fails the search.
Timeout ==
    /\ pc = "loop"
    /\ LoopCondition(queue, results, cfg)
    /\ TimedOut(elapsed, cfg.timeoutMs)
    /\ nChecks' = nChecks + 1
    /\ error' = SearchTimedOut
    /\ pc' = "thrown"
    /\ UNCHANGED <<cfg, filenameRegex, queue, results, currentDir, files, idx,
                   elapsed, returned, response,
                   qdepth, curDepth, rdepth, enqLog, deqLog, last>>
    /\ UNCHANGED mvars

\* lines 60-68: the check passes, the head is dequeued and listed.
ListDir ==
    /\ pc = "loop"
    /\ LoopCondition(queue, results, cfg)
    /\ ~TimedOut(elapsed, cfg.timeoutMs)
    /\ LET sh == QueueShift(queue) IN
         /\ readdir(sh.item).ok
         /\ nChecks' = nChecks + 1
         /\ currentDir' = sh.item
         /\ queue' = sh.rest
         /\ curDepth' = qdepth[sh.at]
         /\ qdepth' = RemoveAt(qdepth, sh.at)
         /\ deqLog' = Append(deqLog, sh.item)
         /\ files' = readdir(sh.item).entries
         /\ idx' = 1
         /\ pc' = IF Len(readdir(sh.item).entries) = 0 THEN "loop" ELSE "entries"
    /\ UNCHANGED <<cfg, filenameRegex, results, elapsed, error, returned, response,
                   rdepth, enqLog, last>>
    /\ UNCHANGED mvars

\* lines 60-71: the check passes, the head is dequeued, the listing fails.
ListDirFail ==
    /\ pc = "loop"
    /\ LoopCondition(queue, results, cfg)
    /\ ~TimedOut(elapsed, cfg.timeoutMs)
    /\ LET sh == QueueShift(queue) IN
         /\ ~readdir(sh.item).ok
         /\ nChecks' = nChecks + 1
         /\ currentDir' = sh.item
         /\ queue' = sh.rest
         /\ curDepth' = qdepth[sh.at]
         /\ qdepth' = RemoveAt(qdepth, sh.at)
         /\ deqLog' = Append(deqLog, sh.item)
         /\ files' = <<>>
         /\ idx' = 0
         /\ pc' = "loop"
    /\ UNCHANGED <<cfg, filenameRegex, results, elapsed, error, returned, response,
                   rdepth, enqLog, last>>
    /\ UNCHANGED mvars

(***************************************************************************)
(* One iteration of the for loop (lines 73-134).                           *)
(***************************************************************************)
AfterEntry ==
    /\ idx' = idx + 1
    /\ pc' = IF idx = Len(files) THEN "loop" ELSE "entries"

AfterStatFailBreak ==
    /\ idx' = idx + 1
    /\ pc' = "loop"

\* line 80: continue with the next entry of the same listing.
AfterStatFail == AfterEntry

\* lines 77-81: stat fails, the entry is skipped.
StatFail ==
    /\ pc = "entries"
    /\ ~files[idx].statOk
    /\ last' = [path |-> pathJoin(currentDir, files[idx].name), kind |-> "statFail",
                stage |-> "none", read |-> "none"]
    /\ AfterStatFail
    /\ UNCHANGED <<cfg, filenameRegex, queue, results, currentDir, files,
                   elapsed, error, returned, response,
                   qdepth, curDepth, rdepth, enqLog, deqLog, nChecks>>
    /\ UNCHANGED mvars

\* lines 74-133: stat succeeds; a directory is enqueued when recursive, a
\* file goes through the filter chain and is appended when it passes.
ProcessEntry ==
    /\ pc = "entries"
    /\ files[idx].statOk
    /\ LET st == files[idx]
           filePath == pathJoin(currentDir, st.name)
           mimeType == mimeLookup(filePath)
           stage == IF st.kind = "file"
                      THEN FilterStage(cfg, filenameRegex, st, mimeType)
                      ELSE "none"
           reached == stage \in {"content", "match"}
           read == IF st.kind = "file" /\ reached /\ contentIsRead(cfg, mimeType)
                     THEN (IF st.readOk THEN "ok" ELSE "failed")
                     ELSE "none"
       IN /\ IF isEnqueued(st, cfg)
               THEN /\ queue' = Append(queue, filePath)
                    /\ qdepth' = Append(qdepth, curDepth + 1)
                    /\ enqLog' = Append(enqLog, filePath)
               ELSE UNCHANGED <<queue, qdepth, enqLog>>
          /\ IF st.kind = "file" /\ stage = "match"
               THEN /\ results' = Append(results, MatchRecord(filePath, st, mimeType))
                    /\ rdepth' = Append(rdepth, curDepth)
               ELSE UNCHANGED <<results, rdepth>>
          /\ last' = [path |-> filePath, kind |-> st.kind, stage |-> stage, read |-> read]
    /\ AfterEntry
    /\ UNCHANGED <<cfg, filenameRegex, currentDir, files,
                   elapsed, error, returned, response, curDepth, deqLog, nChecks>>
    /\ UNCHANGED mvars

(***************************************************************************)
(* The handler after the call (lines 206-217).                             *)
(***************************************************************************)
Respond ==
    /\ pc \in {"returned", "thrown"}
    /\ response' =
         IF pc = "thrown"
           THEN [kind |-> "error", count |-> 0, message |-> error]
         ELSE IF Len(returned) = 0
           THEN [kind |-> "noFiles", count |-> 0,
                 message |-> "No files found matching the search criteria."]
         ELSE [kind |-> "found", count |-> Len(returned), message |-> "files found"]
    /\ pc' = "done"
    /\ UNCHANGED <<cfg, filenameRegex, queue, results, currentDir, files, idx,
                   elapsed, error, returned,
                   qdepth, curDepth, rdepth, enqLog, deqLog, nChecks, last>>
    /\ UNCHANGED mvars

\* Wall-clock time passes while findFiles runs (Date.now() - startTime).
Tick ==
    /\ pc \in {"loop", "entries"}
    /\ elapsed < MaxElapsed
    /\ elapsed' = elapsed + 1
    /\ UNCHANGED <<cfg, pc, filenameRegex, queue, results, currentDir, files, idx,
                   error, returned, response,
                   qdepth, curDepth, rdepth, enqLog, deqLog, nChecks, last>>
    /\ UNCHANGED mvars

Next ==
    \/ NoDirectories
    \/ CallThrows
    \/ Call
    \/ LoopExit
    \/ Timeout
    \/ ListDir
    \/ ListDirFail
    \/ StatFail
    \/ ProcessEntry
    \/ Respond
    \/ Tick

Spec == Init /\ [][Next]_vars

\* The steps of the program itself; the clock is the environment's.
Step ==
    \/ NoDirectories
    \/ CallThrows
    \/ Call
    \/ LoopExit
    \/ Timeout
    \/ ListDir
    \/ ListDirFail
    \/ StatFail
    \/ ProcessEntry
    \/ Respond

\* Every awaited I/O operation settles and the event loop resumes the
\* function, so a program step that stays enabled is eventually taken.
FairSpec == Spec /\ WF_vars(Step)

(***************************************************************************)
(* The name filter in isolation: findFiles' line 56 followed by lines      *)
(* 92-95 for one file name, over every pattern and every name up to the    *)
(* bounds.  "+" stands for the characters that the three replaces of       *)
(* wildcardToRegex leave as they are and that new RegExp reads as syntax.  *)
(***************************************************************************)
PatternAlphabet == {"a", "A", ".", "*", "?", "+"}
NameAlphabet == {"a", "A", ".", "+"}

StringsOver(alphabet, lo, hi) == UNION { [1..n -> alphabet] : n \in lo..hi }

InitMatch ==
    /\ TraversalStart(CHOOSE c \in Configs : TRUE)
    /\ pc = "off"
    /\ mPc = "start"
    /\ mFilename \in StringsOver(PatternAlphabet, 0, MaxPatLen)
    /\ mFileName \in StringsOver(NameAlphabet, 1, MaxNameLen)
    /\ mCase \in BOOLEAN
    /\ mRegex = NullRegex
    /\ mRegexOk = FALSE
    /\ mPass = FALSE

mCfg == [filename |-> mFilename, caseSensitive |-> mCase]

\* line 56 throws.
MatchCompileThrows ==
    /\ mPc = "start"
    /\ compiledRegex(mCfg).kind = "SyntaxError"
    /\ mPc' = "thrown"
    /\ UNCHANGED <<mFilename, mFileName, mCase, mRegex, mRegexOk, mPass>>
    /\ UNCHANGED tvars

\* line 56, then lines 92-95 for the file name.
MatchTest ==
    /\ mPc = "start"
    /\ compiledRegex(mCfg).kind /= "SyntaxError"
    /\ mRegex' = compiledRegex(mCfg)
    /\ mRegexOk' = (compiledRegex(mCfg).kind = "regex"
                    /\ RegexTest(compiledRegex(mCfg), testNameOf(mFileName, mCase)))
    /\ mPass' = ~nameRejects(mCfg, compiledRegex(mCfg), mFileName)
    /\ mPc' = "tested"
    /\ UNCHANGED <<mFilename, mFileName, mCase>>
    /\ UNCHANGED tvars

NextMatch ==
    \/ MatchCompileThrows
    \/ MatchTest

SpecMatch == InitMatch /\ [][NextMatch]_vars

\* What the wildcard notation means: * any run of characters, ? exactly one
\* character, any other character itself; the whole candidate is matched.
RECURSIVE WildcardAccepts(_, _)
WildcardAccepts(p, s) ==
    IF p = <<>> THEN s = <<>>
    ELSE IF Head(p) = "*"
      THEN \E k \in 0..Len(s) : WildcardAccepts(Tail(p), SubSeq(s, k + 1, Len(s)))
    ELSE /\ s /= <<>>
         /\ (Head(p) = "?" \/ Head(p) = Head(s))
         /\ WildcardAccepts(Tail(p), Tail(s))

(***************************************************************************)
(* Helpers of the properties.                                              *)
(***************************************************************************)
\* What stat answers for a path that readdir listed.
statOf(filePath) ==
    LET dir == SubSeq(filePath, 1, Len(filePath) - 1)
        es == readdir(dir).entries
    IN es[CHOOSE i \in 1..Len(es) : es[i].name = filePath[Len(filePath)]]

FoldedName == IF mCase THEN mFileName ELSE toLowerCase(mFileName)
FoldedPattern == IF mCase THEN mFilename ELSE toLowerCase(mFilename)

(***************************************************************************)
(* C1: the sequence findFiles returns never has more than maxResults       *)
(* match records.                                                          *)
(***************************************************************************)
C1_AtMostMaxResults ==
    pc \in {"returned", "done"} => Len(returned) <= cfg.maxResults

(***************************************************************************)
(* C2: findFiles either returns or fails with "Search timed out"; no other *)
(* failure reaches its caller.                                             *)
(***************************************************************************)
C2_OnlyTimeoutFailure ==
    pc = "thrown" => error = SearchTimedOut

(***************************************************************************)
(* C3: the timeout is checked once per dequeue and never between the       *)
(* entries of a directory; a directory is dequeued and listed only if      *)
(* elapsed <= timeoutMs at that check; a check that finds elapsed >        *)
(* timeoutMs fails the search with the timeout failure, and the caller     *)
(* then gets no match record and an answer that is not the empty result.   *)
(***************************************************************************)
C3_TimeoutCheckedPerDequeue ==
    /\ [][ /\ (deqLog' /= deqLog) =>
                  (elapsed <= cfg.timeoutMs /\ nChecks' = nChecks + 1
                   /\ Len(deqLog') = Len(deqLog) + 1)
           /\ (nChecks' /= nChecks) =>
                  (pc = "loop" /\ (deqLog' /= deqLog \/ pc' = "thrown"))
           /\ (pc = "entries") => (pc' /= "thrown" /\ nChecks' = nChecks)
           /\ (pc = "loop" /\ Len(queue) > 0 /\ Len(results) < cfg.maxResults
               /\ elapsed > cfg.timeoutMs /\ elapsed' = elapsed) =>
                  (pc' = "thrown" /\ error' = SearchTimedOut /\ deqLog' = deqLog)
         ]_vars
    /\ [](error = SearchTimedOut =>
             /\ returned = <<>>
             /\ response.kind \in {"none", "error"}
             /\ (pc = "done" => response.kind = "error"
                                /\ response.message = SearchTimedOut))

C3_Witness ==
    /\ pc = "done"
    /\ error = SearchTimedOut
    /\ Len(results) > 0
    /\ Len(deqLog) > 0
    /\ response.kind = "error"

(***************************************************************************)
(* C4: when contentSearch is set, every returned record is a file whose    *)
(* label starts with "text/" and whose content contains contentSearch.     *)
(***************************************************************************)
C4_ContentSearchOnlyText ==
    (pc \in {"returned", "done"} /\ cfg.contentSearch /= <<>>) =>
        \A i \in 1..Len(returned) :
            /\ startsWith(returned[i].type, <<"t","e","x","t","/">>)
            /\ includes(statOf(returned[i].path).content, cfg.contentSearch)

C6_CaseInsensitive ==
    (mPc = "tested" /\ mFilename /= <<>> /\ ~mCase) =>
        (mPass <=> NameFilter(wildcardToRegex(toLowerCase(mFilename)),
                              toLowerCase(mFilename), toLowerCase(mFileName), TRUE))

(***************************************************************************)
(* C7: the compiled predicate accepts a candidate if and only if the whole *)
(* candidate matches the pattern with * any run of characters, ? exactly   *)
(* one character and every other character itself.                         *)
(***************************************************************************)
C7_WildcardSemantics ==
    (mPc = "tested" /\ mFilename /= <<>>) =>
        (mRegexOk <=> WildcardAccepts(mFilename, FoldedName))

(***************************************************************************)
(* C8: for supplied minSize and maxSize, zero included, a file passes the  *)
(* size filter if and only if minSize <= size <= maxSize.                  *)
(***************************************************************************)
C8_SizeBoundsInclusive ==
    (last.kind = "file" /\ last.stage \notin {"name", "extension"}) =>
        ((last.stage /= "size") <=>
            /\ cfg.minSize.set => cfg.minSize.v <= statOf(last.path).size
            /\ cfg.maxSize.set => statOf(last.path).size <= cfg.maxSize.v)

(***************************************************************************)
(* C9: the four date bounds are strict: a file passes the date filters     *)
(* only if its timestamp is strictly after every set "after" bound and     *)
(* strictly before every set "before" bound.                               *)
(***************************************************************************)
C9_DateBoundsStrict ==
    (last.kind = "file" /\ last.stage \notin {"name", "extension", "size"}) =>
        ((last.stage \notin {"created", "modified"}) <=>
            /\ cfg.createdAfter.set => statOf(last.path).birthtime > cfg.createdAfter.v
            /\ cfg.createdBefore.set => statOf(last.path).birthtime < cfg.createdBefore.v
            /\ cfg.modifiedAfter.set => statOf(last.path).mtime > cfg.modifiedAfter.v
            /\ cfg.modifiedBefore.set => statOf(last.path).mtime < cfg.modifiedBefore.v)

(***************************************************************************)
(* C10: directories are dequeued in the order they were enqueued, the      *)
(* start paths first in the given order; match records appear in           *)
(* non-decreasing depth of their directory, so every record found in a     *)
(* start directory precedes every record found in a subdirectory.          *)
(***************************************************************************)
C10_BreadthFirst ==
    /\ Len(deqLog) <= Len(enqLog)
    /\ deqLog = SubSeq(enqLog, 1, Len(deqLog))
    /\ pc \notin {"idle", "off"} =>
          \/ Len(enqLog) = 0
          \/ /\ Len(enqLog) >= Len(cfg.startDirs)
             /\ SubSeq(enqLog, 1, Len(cfg.startDirs)) = cfg.startDirs
    /\ Len(rdepth) = Len(results)
    /\ \A i, j \in 1..Len(results) :
          /\ i < j => rdepth[i] <= rdepth[j]
          /\ (rdepth[i] = 0 /\ rdepth[j] > 0) => i < j

C10_Witness ==
    /\ pc = "done"
    /\ cfg.recursive
    /\ Len(cfg.startDirs) = 2
    /\ Len(deqLog) >= 4
    /\ \E i, j \in 1..Len(returned) : rdepth[i] = 0 /\ rdepth[j] = 1

(***************************************************************************)
(* C11: an I/O failure on one path skips only that unit.  A failed listing *)
(* leaves the matches and the rest of the queue as they were and the loop  *)
(* goes on; a failed stat skips that entry alone and the for loop goes on  *)
(* with the next entry of the same directory; no failure is raised.        *)
(***************************************************************************)
C11_FailureSkipsOneUnit ==
    [][ /\ (deqLog' /= deqLog /\ ~readdir(Head(queue)).ok) =>
              /\ results' = results
              /\ queue' = Tail(queue)
              /\ pc' = "loop"
              /\ error' = NoError
        /\ (pc = "entries" /\ idx' /= idx /\ ~files[idx].statOk) =>
              /\ results' = results
              /\ queue' = queue
              /\ error' = NoError
              /\ files' = files
              /\ idx' = idx + 1
              /\ pc' = IF idx < Len(files) THEN "entries" ELSE "loop"
      ]_vars

\* A listing failed and a stat failed, and a file of a later directory was
\* still returned.
C11_Witness ==
    /\ pc = "done"
    /\ \E i \in 1..Len(deqLog) : ~readdir(deqLog[i]).ok
    /\ \E i \in 1..Len(deqLog) :
          /\ deqLog[i] = dirB
          /\ \E k \in (i + 1)..Len(deqLog) :
                \E r \in 1..Len(returned) :
                    returned[r].path = pathJoin(deqLog[k], nUTxt)

(***************************************************************************)
(* C12: with recursive = false no discovered subdirectory is enqueued: the *)
(* queue is always the start paths not yet dequeued, it never grows once   *)
(* seeded, and every match record is an immediate child of a start path.   *)
(***************************************************************************)
C12_NonRecursiveQueue ==
    (~cfg.recursive /\ pc \notin {"idle", "off"} /\ Len(cfg.startDirs) > 0) =>
        /\ Len(deqLog) <= Len(cfg.startDirs)
        /\ queue = SubSeq(cfg.startDirs, Len(deqLog) + 1, Len(cfg.startDirs))
        /\ enqLog = cfg.startDirs
        /\ \A i \in 1..Len(results) :
              \E k \in 1..Len(cfg.startDirs) :
                  /\ Len(results[i].path) = Len(cfg.startDirs[k]) + 1
                  /\ SubSeq(results[i].path, 1, Len(cfg.startDirs[k])) = cfg.startDirs[k]

\* A subdirectory was met with recursive = false and the search went on.
C12_Witness ==
    /\ ~cfg.recursive
    /\ pc = "entries"
    /\ last.kind = "dir"
    /\ Len(results) > 0
    /\ Len(queue) > 0

(***************************************************************************)
(* C13: the match sequence of a search that the timeout does not cut short *)
(* is determined by the configuration and the file-system tree alone: it   *)
(* is the value SearchResult computes from them without any clock, so two  *)
(* such runs return the same sequence, in order and in contents.           *)
(***************************************************************************)
\* What one listing contributes: the subdirectories to visit later and the
\* match records, in listing order.
RECURSIVE ListingYield(_, _, _)
ListingYield(c, dir, es) ==
    IF es = <<>> THEN [dirs |-> <<>>, found |-> <<>>]
    ELSE LET e == Head(es)
             p == pathJoin(dir, e.name)
             rest == ListingYield(c, dir, Tail(es))
         IN [dirs |-> (IF e.statOk /\ e.kind = "dir" /\ c.recursive
                         THEN <<p>> ELSE <<>>) \o rest.dirs,
             found |-> (IF /\ e.statOk
                           /\ e.kind = "file"
                           /\ FilterStage(c, compiledRegex(c), e, mimeLookup(p)) = "match"
                         THEN <<MatchRecord(p, e, mimeLookup(p))>> ELSE <<>>) \o rest.found]

RECURSIVE SearchFrom(_, _, _)
SearchFrom(c, pending, found) ==
    IF pending = <<>> \/ Len(found) >= c.maxResults THEN found
    ELSE LET dir == Head(pending)
             ls == readdir(dir)
             y == ListingYield(c, dir, ls.entries)
         IN IF ls.ok THEN SearchFrom(c, Tail(pending) \o y.dirs, found \o y.found)
            ELSE SearchFrom(c, Tail(pending), found)

SearchResult(c) == SearchFrom(c, c.startDirs, <<>>)

C13_Deterministic ==
    (pc = "returned" \/ (pc = "done" /\ response.kind \in {"found", "noFiles"})) =>
        returned = SearchResult(cfg)

\* A run that returned matches after the clock had advanced past the budget.
C13_Witness ==
    /\ pc = "returned"
    /\ Len(returned) > 0
    /\ elapsed > cfg.timeoutMs
    /\ Len(deqLog) > 1

(***************************************************************************)
(* C14: when the search ends because the queue is exhausted, the start     *)
(* paths are distinct and not nested and no I/O operation can fail on the  *)
(* paths in reach, the returned paths are exactly the regular files in     *)
(* reach of the start paths (immediate children only when recursive is     *)
(* false) that pass the whole filter chain, each returned exactly once.    *)
(***************************************************************************)
\* The entries in reach of a directory, by descent, each with its path.
RECURSIVE EntriesUnder(_, _)
EntriesUnder(dir, recursive) ==
    LET es == readdir(dir).entries
        here == { [path |-> pathJoin(dir, es[i].name), st |-> es[i]] : i \in 1..Len(es) }
    IN here \cup
       (IF recursive
          THEN UNION { EntriesUnder(x.path, recursive) :
                         x \in { y \in here : y.st.statOk /\ y.st.kind = "dir" } }
          ELSE {})

InReach(c) ==
    UNION { EntriesUnder(c.startDirs[k], c.recursive) : k \in 1..Len(c.startDirs) }

IsPrefix(p, q) == Len(p) <= Len(q) /\ SubSeq(q, 1, Len(p)) = p

DistinctStartPaths(c) ==
    \A i, j \in 1..Len(c.startDirs) :
        i /= j => ~IsPrefix(c.startDirs[i], c.startDirs[j])

\* Nothing in reach can fail: every start path and every subdirectory in
\* reach can be listed, every entry can be stat'ed, and when the content is
\* searched every file can be read.
NoIOFailure(c) ==
    /\ \A k \in 1..Len(c.startDirs) : readdir(c.startDirs[k]).ok
    /\ \A x \in InReach(c) :
          /\ x.st.statOk
          /\ (x.st.kind = "dir" /\ c.recursive) => readdir(x.path).ok
          /\ (x.st.kind = "file" /\ c.contentSearch /= <<>>) => x.st.readOk

\* A file satisfies the active filters: the name filter and the extension
\* and type filters as the chain evaluates them, the size bounds inclusive
\* and the date bounds strict whenever they are supplied, and with a content
\* search a textual label and a content that contains the text.
Satisfies(c, x) ==
    /\ ~nameRejects(c, compiledRegex(c), x.st.name)
    /\ ~extensionRejects(c, x.st.name)
    /\ c.minSize.set => c.minSize.v <= x.st.size
    /\ c.maxSize.set => x.st.size <= c.maxSize.v
    /\ c.createdAfter.set => x.st.birthtime > c.createdAfter.v
    /\ c.createdBefore.set => x.st.birthtime < c.createdBefore.v
    /\ c.modifiedAfter.set => x.st.mtime > c.modifiedAfter.v
    /\ c.modifiedBefore.set => x.st.mtime < c.modifiedBefore.v
    /\ ~fileTypeRejects(c, mimeLookup(x.path))
    /\ c.contentSearch /= <<>> =>
          /\ startsWith(mimeLookup(x.path), <<"t","e","x","t","/">>)
          /\ includes(x.st.content, c.contentSearch)

Qualifying(c) ==
    { x.path : x \in { y \in InReach(c) : y.st.kind = "file" /\ Satisfies(c, y) } }

ExhaustedRun ==
    /\ pc = "returned"
    /\ queue = <<>>
    /\ DistinctStartPaths(cfg)
    /\ NoIOFailure(cfg)

\* C14: a run that exhausts the queue, from distinct non-nested start paths
\* and without I/O failure, returns exactly the regular files in reach that
\* satisfy every active filter, each once.
C14_ExactlyTheQualifyingFiles ==
    ExhaustedRun =>
        /\ { returned[i].path : i \in 1..Len(returned) } = Qualifying(cfg)
        /\ \A i, j \in 1..Len(returned) :
              returned[i].path = returned[j].path => i = j

\* The same run returns, each once, the files in reach on which the chain
\* as coded reports a match.
ChainMatches(c) ==
    { x.path : x \in { y \in InReach(c) :
                         /\ y.st.kind = "file"
                         /\ FilterStage(c, compiledRegex(c), y.st, mimeLookup(y.path))
                              = "match" } }

ExhaustedRunReturnsChainMatches ==
    ExhaustedRun =>
        /\ { returned[i].path : i \in 1..Len(returned) } = ChainMatches(cfg)
        /\ \A i, j \in 1..Len(returned) :
              returned[i].path = returned[j].path => i = j

(***************************************************************************)
(* C15: every path on the queue is a start path or a path made of a        *)
(* dequeued directory and the name of an entry that stat reported to be a  *)
(* directory; a directory whose listing fails is dropped from the queue    *)
(* and nothing is added for it.                                            *)
(***************************************************************************)
IsStartPath(c, path) == \E i \in 1..Len(c.startDirs) : c.startDirs[i] = path

IsDiscoveredDirectory(path) ==
    /\ Len(path) > 1
    /\ \E i \in 1..Len(deqLog) : deqLog[i] = SubSeq(path, 1, Len(path) - 1)
    /\ statOf(path).statOk
    /\ statOf(path).kind = "dir"

QueueHoldsOnlyDirectories ==
    /\ \A i \in 1..Len(queue) :
          IsStartPath(cfg, queue[i]) \/ IsDiscoveredDirectory(queue[i])
    /\ \A i \in 1..Len(enqLog) :
          IsStartPath(cfg, enqLog[i]) \/ IsDiscoveredDirectory(enqLog[i])

\* C15: the queue holds only start paths and stat-reported directories, and
\* a failed listing removes the directory from the queue and adds nothing.
C15_QueueOnlyDirectories ==
    /\ []QueueHoldsOnlyDirectories
    /\ [][ (deqLog' /= deqLog /\ ~readdir(Head(queue)).ok) =>
              /\ queue' = Tail(queue)
              /\ enqLog' = enqLog ]_vars

C15_Witness ==
    /\ \E i \in 1..Len(deqLog) : ~readdir(deqLog[i]).ok
    /\ Len(queue) > 0
    /\ ~IsStartPath(cfg, queue[1])
    /\ Len(results) > 0

(***************************************************************************)
(* C16: the content of a file is read only when a content search is set,   *)
(* the label of the file starts with "text/" and the name, extension,      *)
(* size, date and type filters have all let the file through; a file with  *)
(* any other label is never read.                                          *)
(***************************************************************************)
PassedEarlierFilters(c, re, st, mimeType) ==
    /\ ~nameRejects(c, re, st.name)
    /\ ~extensionRejects(c, st.name)
    /\ ~sizeRejects(c, st)
    /\ ~createdRejects(c, st)
    /\ ~modifiedRejects(c, st)
    /\ ~fileTypeRejects(c, mimeType)

\* C16: a content read happens last and only behind its gate.
C16_ContentReadLastAndGated ==
    last.read /= "none" =>
        /\ last.kind = "file"
        /\ cfg.contentSearch /= <<>>
        /\ startsWith(mimeLookup(last.path), <<"t","e","x","t","/">>)
        /\ PassedEarlierFilters(cfg, filenameRegex, statOf(last.path),
                                mimeLookup(last.path))

C16_Witness ==
    /\ last.read = "ok"
    /\ \E i \in 1..Len(deqLog) : \E j \in 1..Len(readdir(deqLog[i]).entries) :
          LET st == readdir(deqLog[i]).entries[j] IN
            /\ st.statOk
            /\ st.kind = "file"
            /\ ~PassedEarlierFilters(cfg, filenameRegex, st,
                                     mimeLookup(pathJoin(deqLog[i], st.name)))

(***************************************************************************)
(* C17: when a content search is set and the read of a text file fails,    *)
(* the file is not added to the results, no error is raised, the results   *)
(* and the queue are as before the entry, and the loop goes on with the    *)
(* next entry of the directory.                                            *)
(***************************************************************************)
ReadWillFail ==
    /\ pc = "entries"
    /\ files[idx].statOk
    /\ files[idx].kind = "file"
    /\ ~files[idx].readOk
    /\ cfg.contentSearch /= <<>>
    /\ startsWith(mimeLookup(pathJoin(currentDir, files[idx].name)),
                  <<"t","e","x","t","/">>)

UnreadableNeverReturned ==
    \A i \in 1..Len(results) :
        (/\ cfg.contentSearch /= <<>>
         /\ startsWith(results[i].type, <<"t","e","x","t","/">>))
            => statOf(results[i].path).readOk

\* C17: the content filter fails closed on a read failure.
C17_ContentFilterFailsClosed ==
    /\ []UnreadableNeverReturned
    /\ [][ (ReadWillFail /\ idx' /= idx) =>
              /\ results' = results
              /\ queue' = queue
              /\ error' = NoError
              /\ files' = files
              /\ idx' = idx + 1
              /\ pc' = IF idx < Len(files) THEN "entries" ELSE "loop" ]_vars

C17_Witness ==
    /\ cfg.contentSearch /= <<>>
    /\ last.path = pathJoin(pathJoin(dirA, nS), nCTxt)
    /\ \E i \in 1..Len(results) : results[i].path = pathJoin(dirA, nATxt)
    /\ LET p == pathJoin(pathJoin(dirA, nS), nETxt) IN
         /\ ~statOf(p).readOk
         /\ PassedEarlierFilters(cfg, filenameRegex, statOf(p), mimeLookup(p))

(***************************************************************************)
(* C18: on the finite tree, for every configuration, a call of findFiles   *)
(* eventually stops by returning a result or by raising the timeout        *)
(* failure; every enqueued path is dequeued at most once, and nothing is   *)
(* dequeued once the call has stopped.                                     *)
(***************************************************************************)
Running == pc \in {"loop", "entries"}

Stopped == pc = "returned" \/ (pc = "thrown" /\ error = SearchTimedOut)

Count(seq, path) == Cardinality({ i \in 1..Len(seq) : seq[i] = path })

\* Every path was enqueued as often as it was dequeued or is still queued.
DequeuedAtMostOnce ==
    \A i \in 1..Len(enqLog) :
        Count(enqLog, enqLog[i]) = Count(deqLog, enqLog[i]) + Count(queue, enqLog[i])

NoDequeueOnceStopped ==
    [][ (pc \in {"returned", "thrown", "done"}) =>
            (deqLog' = deqLog /\ queue' = queue) ]_vars

\* C18: the running traversal stops with a result or the timeout failure,
\* every enqueued path is dequeued at most once, and none after the stop.
C18_Terminates ==
    /\ Running ~> Stopped
    /\ []DequeuedAtMostOnce
    /\ NoDequeueOnceStopped

C18_Witness ==
    /\ pc = "returned"
    /\ Len(deqLog) >= 4
    /\ queue = <<>>
    /\ \E i \in 1..Len(deqLog) : Count(enqLog, deqLog[i]) = 2

(***************************************************************************)
(* C19: at the head of the loop the result cap and the empty queue are     *)
(* tested before the clock: with maxResults records or an empty queue the  *)
(* search returns its records even when more than timeoutMs has elapsed;   *)
(* the timeout failure is raised only with a non-empty queue and fewer     *)
(* than maxResults records; once the cap is reached nothing is dequeued.   *)
(***************************************************************************)
CapReached == Len(results) >= cfg.maxResults

\* C19: the cap and the exhaustion of the queue take precedence over the
\* timeout at every loop head.
C19_CapAndExhaustionBeforeTimeout ==
    [][ /\ (pc = "loop" /\ (queue = <<>> \/ CapReached) /\ elapsed' = elapsed) =>
              /\ pc' = "returned"
              /\ returned' = results
              /\ error' = NoError
        /\ (error' = SearchTimedOut /\ error /= SearchTimedOut) =>
              /\ Len(queue) > 0
              /\ ~CapReached
              /\ elapsed > cfg.timeoutMs
        /\ CapReached => deqLog' = deqLog ]_vars

C19_Witness ==
    /\ pc = "returned"
    /\ elapsed > cfg.timeoutMs
    /\ Len(returned) >= cfg.maxResults
    /\ Len(queue) > 0

====
